---- MODULE Spec2Model ----
(***************************************************************************)
(* A model of the judging engine of verify.py: test discovery              *)
(* (Subtask.walk_folder), the process runner (run_code), the output        *)
(* verifier (Problem.verify_output), the judge (Problem.judge_exec), the   *)
(* check of the subtasks (Problem.verify_subtasks) and the driver loop     *)
(* over the configured solutions (Problem.verify_submissions).             *)
(*                                                                         *)
(* Numbers.  Scores are Python floats c * 1.0 / n * s.  They are modelled  *)
(* as exact rationals in fixed point: the integer x * Den * EpsInv stands  *)
(* for the number x, where Den is the least common multiple of the         *)
(* possible test counts 1..MaxTests and 1/EpsInv is EPS.  CPU times are    *)
(* integers in clock ticks: a run of a submission uses any number of ticks *)
(* the budget MaxRunCpu leaves, g++, the input validator, the checker and  *)
(* diff use ToolCpu.                                                       *)
(*                                                                         *)
(* Spec is main() after the construction of the Problem: verify_subtasks,  *)
(* then verify_submissions, over a package of size (program runs, defects, *)
(* sample subtask) at most MaxRuns; SpecWalk is the discovery of the tests *)
(* of one subtask in a test directory of at most MaxFiles files.           *)
(***************************************************************************)
EXTENDS Integers, Sequences, FiniteSets, TLC

(***************************************************************************)
(* Bounds of the model.                                                    *)
(***************************************************************************)
MaxSubtasks == 2
MaxTests == 2
MaxSolutions == 2
\* The size of the package of one session: its program runs (submissions
\* times tests), its defects (extra submissions, a total that does not
\* match, rejected input files) and its sample subtask together.
MaxRuns == 2
\* The CPU time, in ticks, the runs of the submissions of one session use
\* together.
MaxRunCpu == 1
\* The files under the test directory.
MaxFiles == 3

(***************************************************************************)
(* Fixed point.                                                            *)
(***************************************************************************)
EpsInv == 1000000

RECURSIVE Gcd(_, _)
Gcd(a, b) == IF b = 0 THEN a ELSE Gcd(b, a % b)

RECURSIVE LcmUpTo(_)
LcmUpTo(n) == IF n <= 1 THEN 1 ELSE (LcmUpTo(n - 1) * n) \div Gcd(LcmUpTo(n - 1), n)

Den == LcmUpTo(MaxTests)

Fixed(x) == x * Den * EpsInv

\* EPS = 10 ** -6
EPS == Den

(***************************************************************************)
(* class Verdict                                                           *)
(***************************************************************************)
Verdict == {"UNKNOWN", "AC", "WA", "TL", "RE"}

\* The ways subprocess.run can end in run_code: the timeout expired, the
\* child exited with a non-zero status, the child exited with status 0.
RunResult == {"timeout", "nonzero", "zero"}

(***************************************************************************)
(* class TestVerdict, SubtaskVerdict, ProblemVerdict                       *)
(***************************************************************************)
TestVerdict(verdict, exec_time, input_name) ==
    [verdict |-> verdict, exec_time |-> exec_time, input_path |-> input_name]

SubtaskVerdict(subtask_id) ==
    [test_verdicts |-> <<>>, score |-> 0, subtask_id |-> subtask_id]

add_test_verdict(sv, tv) ==
    [sv EXCEPT !.test_verdicts = Append(@, tv)]

set_score(sv, score) ==
    [sv EXCEPT !.score = score]

ProblemVerdict ==
    [verdicts |-> <<>>, total_score |-> 0]

add_subtask_verdict(pv, sv) ==
    [verdicts |-> Append(pv.verdicts, sv), total_score |-> pv.total_score + sv.score]

\* str(test_verdict): a timed-out test prints no time.
TestVerdictStr(tv) ==
    IF tv.verdict = "TL" THEN <<tv.verdict, "-----">> ELSE <<tv.verdict, tv.exec_time>>

(***************************************************************************)
(* run_code: the TestVerdict returned for a run that ended with `result`,  *)
(* given the cumulative child-CPU counter sampled before the run and the   *)
(* counter after it.                                                       *)
(***************************************************************************)
\* Mutation: a non-zero exit status is not looked at.
run_code_IgnoresStatus(result, before, after, input_name) ==
    CASE result = "nonzero" -> TestVerdict("UNKNOWN", after - before, input_name)
      [] result = "zero"    -> TestVerdict("UNKNOWN", after - before, input_name)
      [] result = "timeout" -> TestVerdict("TL", -1, input_name)

\* Mutation: the counter is not sampled before the run, so the time reported
\* is the cumulative counter.
run_code_Cumulative(result, before, after, input_name) ==
    CASE result = "nonzero" -> TestVerdict("RE", after, input_name)
      [] result = "zero"    -> TestVerdict("UNKNOWN", after, input_name)
      [] result = "timeout" -> TestVerdict("TL", -1, input_name)

\* Mutation: a timed-out run reports the measured time, not the sentinel.
run_code_NoSentinel(result, before, after, input_name) ==
    CASE result = "nonzero" -> TestVerdict("RE", after - before, input_name)
      [] result = "zero"    -> TestVerdict("UNKNOWN", after - before, input_name)
      [] result = "timeout" -> TestVerdict("TL", after - before, input_name)

run_code(result, before, after, input_name) ==
    CASE result = "nonzero" -> TestVerdict("RE", after - before, input_name)
      [] result = "zero"    -> TestVerdict("UNKNOWN", after - before, input_name)
      [] result = "timeout" -> TestVerdict("TL", -1, input_name)

\* run_code writes result.stdout to output_path after subprocess.run returns;
\* when TimeoutExpired is raised the file is left as it was.
WrittenOutput(result, old, produced) ==
    IF result = "timeout" THEN old ELSE produced

(***************************************************************************)
(* verify_output.  The file ./tmp/out holds [test, good]: the test whose   *)
(* run wrote it and whether what was written is a correct answer for that  *)
(* test.  The checker (or diff -w) reads this file and the test's expected *)
(* output and exits 0 exactly when the file is a correct answer for the    *)
(* test it is asked about.                                                 *)
(***************************************************************************)
NoOutput == [test |-> <<0, 0>>, good |-> FALSE]

CheckerStatus(content, test) ==
    IF content.test = test /\ content.good THEN 0 ELSE 1

\* Mutation: every exception of check_call is caught.
verify_output_CatchesAll(invocable, status) ==
    IF ~invocable THEN "False"
    ELSE IF status = 0 THEN "True" ELSE "False"

\* subprocess.check_call returns on exit status 0, raises CalledProcessError
\* (caught: return False) on any other status and raises OSError (not caught)
\* when the command cannot be executed.
verify_output(invocable, status) ==
    IF ~invocable THEN "OSError"
    ELSE IF status = 0 THEN "True" ELSE "False"

(***************************************************************************)
(* judge_exec: scoring.                                                    *)
(***************************************************************************)
\* Mutation: a subtask is all or nothing.
SubtaskScore_AllOrNothing(correct_tests, total_tests, score) ==
    IF correct_tests = total_tests THEN score * Den * EpsInv ELSE 0

\* correct_tests * 1.0 / len(subtask.tests) * subtask.score
SubtaskScore(correct_tests, total_tests, score) ==
    (correct_tests * Fixed(score)) \div total_tests

\* Mutation: a subtask of one test is skipped too.
SkipSubtask_OneTest(subtask) == subtask.ntests <= 1

\* if len(subtask.tests) == 0: continue
SkipSubtask(subtask) == subtask.ntests = 0

\* The verdict after the UNKNOWN branch of judge_exec.
JudgedVerdict(tv, verified) ==
    IF tv.verdict = "UNKNOWN"
    THEN [tv EXCEPT !.verdict = IF verified = "True" THEN "AC" ELSE "WA"]
    ELSE tv

\* Mutation: the SubtaskVerdict is added before its score is set, so the
\* total gets the initial score of the object.
CloseSubtask_AddFirst(pv, sv, score) ==
    [verdicts |-> Append(pv.verdicts, set_score(sv, score)),
     total_score |-> pv.total_score + sv.score]

\* subtask_verdict.set_score(...) and then problem_verdict.add_subtask_verdict(...)
CloseSubtask(pv, sv, score) ==
    add_subtask_verdict(pv, set_score(sv, score))

\* Mutation: the ProblemVerdict of the earlier call is used again.
NewProblemVerdict_Reused(previous) == previous

\* problem_verdict = ProblemVerdict(): the verdict judge_exec starts from,
\* whatever an earlier call left.
NewProblemVerdict(previous) == ProblemVerdict

\* Mutation: a test that timed out is run again.
NextTest_RetryTimeout(t, tv) == IF tv.verdict = "TL" THEN t ELSE t + 1

\* for test in subtask.tests: the position after test number t is recorded.
NextTest(t, tv) == t + 1

(***************************************************************************)
(* verify_submissions: the range check.                                    *)
(***************************************************************************)
\* Mutation: the scores are compared without the tolerance.
RangeFinding_NoEps(score, min_score, max_score) ==
    IF score < min_score THEN "below"
    ELSE IF score > max_score THEN "above"
    ELSE "in_range"

RangeFinding(score, min_score, max_score) ==
    IF score < min_score - EPS THEN "below"
    ELSE IF score > max_score + EPS THEN "above"
    ELSE "in_range"

\* Mutation: the loop is left at the first finding out of range.
NextSubmission_StopAtFinding(i, finding) ==
    IF finding = "in_range" THEN i + 1 ELSE i + MaxSolutions

\* for submission in self.config['solutions']: the next position after the
\* finding for submission number i.
NextSubmission(i, finding) == i + 1

(***************************************************************************)
(* Subtask.walk_folder.  A file name is the sequence of its characters; a  *)
(* path is <<directory, name>>, the directory given relative to the test   *)
(* directory.                                                              *)
(***************************************************************************)
DEFAULT_INPUT_SUFFIX == <<"i", "n", "p">>
DEFAULT_OUTPUT_SUFFIX == <<"o", "u", "t">>

Dot == <<".">>

\* str.find('.'): the 0-based index of the first '.', -1 when there is none.
RECURSIVE FindFrom(_, _)
FindFrom(name, i) ==
    IF i > Len(name) THEN -1
    ELSE IF name[i] = "." THEN i - 1 ELSE FindFrom(name, i + 1)

Find(name) == FindFrom(name, 1)

\* str.rfind('.'): the 0-based index of the last '.', -1 when there is none.
RECURSIVE RFindFrom(_, _)
RFindFrom(name, i) ==
    IF i < 1 THEN -1
    ELSE IF name[i] = "." THEN i - 1 ELSE RFindFrom(name, i - 1)

RFind(name) == RFindFrom(name, Len(name))

\* PurePath.suffix: the last dot and what follows it, unless that dot is the
\* first or the last character of the name.
Suffix(name) ==
    LET i == RFind(name)
    IN  IF 0 < i /\ i < Len(name) - 1 THEN SubSeq(name, i + 1, Len(name)) ELSE <<>>

\* PurePath.with_suffix(suffix): the name with its suffix replaced.
WithSuffix(name, suffix) ==
    IF Suffix(name) = <<>> THEN name \o suffix
    ELSE SubSeq(name, 1, Len(name) - Len(Suffix(name))) \o suffix

\* compiled_regex.match(name), for a regex of literal characters and '.'
\* (any character): the regex matches a prefix of the name.
RegexMatch(regex, name) ==
    /\ Len(regex) <= Len(name)
    /\ \A i \in 1..Len(regex) : regex[i] = "." \/ regex[i] = name[i]

\* path.name[:path.name.find('.')]; a slice that ends at -1 drops the last
\* character.
TestName(name) ==
    LET i == Find(name)
    IN  IF i >= 0 THEN SubSeq(name, 1, i) ELSE SubSeq(name, 1, Len(name) - 1)

\* class Test
Test(tests_path, input, output, subtask_id) ==
    [input_path  |-> <<tests_path, input>>,
     output_path |-> <<tests_path, output>>,
     subtask_id  |-> subtask_id]

\* The condition of walk_folder on a file.
IsInput(regex, name, input_suffix) ==
    RegexMatch(regex, name) /\ Suffix(name) = Dot \o input_suffix

\* The Test walk_folder builds for a qualifying file.
WalkTest(path, input_suffix, output_suffix, subtask_id) ==
    LET test_name == TestName(path[2])
    IN  Test(path[1], test_name \o Dot \o input_suffix,
             test_name \o Dot \o output_suffix, subtask_id)

(***************************************************************************)
(* verify_subtasks and the first lines of verify_submissions.  A printed   *)
(* line is a record of the same shape as the ones of the submissions.      *)
(***************************************************************************)
\* The CPU time g++, the input validator, the checker or diff adds to the
\* children's counter.
ToolCpu == 1

\* verification_failed(...) / verification_success(...)
Line(name, success, finding, score) ==
    [name |-> name, success |-> success, finding |-> finding, score |-> score,
     min_score |-> 0, max_score |-> 0]

RECURSIVE SumScores(_)
SumScores(s) == IF s = <<>> THEN 0 ELSE s[1].score + SumScores(Tail(s))

\* The tests of the package, <<subtask, test>>.
TestSet(subs) == UNION { {i} \X (1..subs[i].ntests) : i \in 1..Len(subs) }

\* The tests verify_subtasks validates: those of the subtasks other than 0.
ValidatedTests(subs) == { kt \in TestSet(subs) : subs[kt[1]].subtask_id # 0 }

RECURSIVE ValidateTests(_, _, _, _, _, _, _)
\* for test in subtask.tests, from test m on: the file is read and rewritten,
\* the validator runs on it as a child, a non-zero status is reported.
ValidateTests(acc, subs, i, m, missing, present, invalid) ==
    IF m > subs[i].ntests \/ acc.raised # "none" THEN acc
    ELSE LET test == <<i, m>>
             next == IF test \in missing
                       THEN [acc EXCEPT !.raised = "input"]
                     ELSE IF ~present
                       THEN [acc EXCEPT !.rewritten = @ \cup {test}, !.raised = "validator"]
                     ELSE [acc EXCEPT !.rewritten = @ \cup {test},
                                      !.cpu = @ + ToolCpu,
                                      !.passed = @ /\ test \notin invalid,
                                      !.lines = IF test \notin invalid THEN @
                                                ELSE Append(@, Line(test, FALSE,
                                                                    "input_validator", 0))]
         IN  ValidateTests(next, subs, i, m + 1, missing, present, invalid)

RECURSIVE VerifyFrom(_, _, _, _, _, _)
\* for subtask in self.subtasks, from subtask i on.
VerifyFrom(acc, subs, i, missing, present, invalid) ==
    IF i > Len(subs) \/ acc.raised # "none" THEN acc
    ELSE LET counted == [acc EXCEPT !.passed = TRUE,
                                    !.lines = Append(@, Line(subs[i].subtask_id,
                                                             subs[i].ntests # 0, "tests",
                                                             subs[i].ntests))]
             checked == ValidateTests(counted, subs, i, 1, missing, present, invalid)
             done    == IF subs[i].subtask_id = 0 THEN counted
                        ELSE IF checked.raised = "none" /\ checked.passed
                          THEN [checked EXCEPT !.lines =
                                   Append(@, Line(subs[i].subtask_id, TRUE,
                                                  "passed_validator", 0))]
                        ELSE checked
         IN  VerifyFrom(done, subs, i + 1, missing, present, invalid)

\* verify_subtasks: the lines printed, the CPU time of the validator runs, the
\* input files rewritten and the exception raised, "none" when there is none.
verify_subtasks(subs, score, missing, present, invalid) ==
    VerifyFrom([lines |-> IF SumScores(subs) # score
                          THEN <<Line("total", FALSE, "total_score", SumScores(subs))>>
                          ELSE <<>>,
                cpu |-> 0, rewritten |-> {}, raised |-> "none", passed |-> TRUE],
               subs, 1, missing, present, invalid)

\* configured_submissions
Configured(sols) == { sols[i].name : i \in 1..Len(sols) }

\* if all_submissions.difference(configured_submissions): verification_failed(...)
ExtraSubmissions(all, sols) ==
    IF all \ Configured(sols) # {}
    THEN <<Line(all \ Configured(sols), FALSE, "extra_submissions", 0)>>
    ELSE <<>>

(***************************************************************************)
(* State.                                                                  *)
(***************************************************************************)
VARIABLES
    subtasks,            \* self.subtasks: subtask_id, score and the number of tests
    solutions,           \* self.config['solutions']: the names, in order
    problem_score,       \* self.config['problem']['score']
    verifier_exec_path,  \* self.verifier_exec_path: "None" or "checker"
    checker_present,     \* whether ./tmp/checker exists and can be executed
    all_submissions,     \* the names of the .cpp files in self.submission_path
    missing_input,       \* the tests whose Test.input_path names no file
    invalid_input,       \* the tests whose input file the input validator rejects
    rewritten,           \* the input files verify_subtasks rewrote
    pc,                  \* position in verify_submissions / judge_exec
    si,                  \* index of the submission of the current iteration
    exec_present,        \* whether the executable of the current submission exists
    problem_verdict,     \* judge_exec: problem_verdict
    k,                   \* judge_exec: index of the current subtask
    subtask_verdict,     \* judge_exec: subtask_verdict
    t,                   \* judge_exec: index of the current test
    correct_tests,       \* judge_exec: correct_tests
    test_verdict,        \* judge_exec: test_verdict
    out_file,            \* contents of ./tmp/out
    children_cpu,        \* resource.getrusage(RUSAGE_CHILDREN): ru_utime + ru_stime
    run_cpu,             \* the part of children_cpu the runs of submissions used
    cnt_ac,              \* verify_submissions: cnt_ac
    findings,            \* the verification_failed / verification_success lines
    log_stream,          \* what was written to the log file
    abort_reason,        \* the exception that ended the program, or "none"
    compiled,            \* history: the submissions compile_cpp was called for
    events,              \* history: runs, verifications and records of this call
    outcomes,            \* history: how each run and check of this call ended
    returned,            \* history: what each call of judge_exec returned
    cpu_used,            \* history: the CPU time the child of each run of this call used
    fs,                  \* the files under the test directory
    regex,               \* walk_folder: self.regex
    wdir,                \* walk_folder: the directory being iterated
    todo,                \* walk_folder: the files not visited yet
    tests,               \* walk_folder: self.tests
    warnings             \* walk_folder: the "Output not found" lines

vars == <<subtasks, solutions, problem_score, verifier_exec_path, checker_present,
          all_submissions, missing_input, invalid_input, rewritten, pc, si, exec_present, problem_verdict, k, subtask_verdict, t,
          correct_tests, test_verdict, out_file, children_cpu, run_cpu, cnt_ac,
          findings, log_stream, abort_reason, compiled, events, outcomes, returned,
          cpu_used, fs, regex, wdir, todo, tests, warnings>>

walk == <<fs, regex, wdir, todo, tests, warnings>>

config == <<subtasks, solutions, problem_score, verifier_exec_path, checker_present,
            all_submissions, missing_input, invalid_input>>

(***************************************************************************)
(* Packages.                                                               *)
(***************************************************************************)
\* subtask['score'] of the i-th subtask of the configuration.
DeclaredScore(i) == 10 * i

\* [min_score, max_score] of a solution of the configuration.
Ranges == { <<Fixed(0), Fixed(0)>>,
            <<Fixed(10) + EPS, Fixed(20) - EPS - 1>> }

RECURSIVE TotalTests(_)
TotalTests(s) == IF s = <<>> THEN 0 ELSE s[1].ntests + TotalTests(Tail(s))

\* What is wrong with the package: the submissions the configuration does not
\* list, a total that is not the sum of the subtask scores, and the input
\* files the validator rejects.
Defects(subs, sols, score, all, invalid) ==
    Cardinality(all \ Configured(sols))
      + (IF SumScores(subs) # score THEN 1 ELSE 0)
      + Cardinality(invalid)

\* The size of a package: the runs of its submissions, its defects, and its
\* sample subtask when it has one.
PackageSize(subs, sols, score, all, invalid) ==
    Len(sols) * TotalTests(subs)
      + Defects(subs, sols, score, all, invalid)
      + (IF subs[1].subtask_id = 0 THEN 1 ELSE 0)

\* The CPU time one run of a submission can add to the children's counter.
CpuChoices == 0..(MaxRunCpu - run_cpu)

TypeOK ==
    /\ pc \in {"start", "submissions", "loop", "judge", "subtasks", "tests", "verify", "record",
               "check", "done", "aborted"}
    /\ abort_reason \in {"none", "input", "validator", "logs", "exec", "checker"}
    /\ run_cpu \in 0..MaxRunCpu
    /\ children_cpu >= run_cpu

\* The variables of verify_submissions and judge_exec before either runs.
JudgeIdle ==
    /\ pc = "start"
    /\ si = 0
    /\ exec_present = FALSE
    /\ problem_verdict = ProblemVerdict
    /\ k = 0
    /\ subtask_verdict = SubtaskVerdict(0)
    /\ t = 0
    /\ correct_tests = 0
    /\ test_verdict = TestVerdict("UNKNOWN", 0, <<0, 0>>)
    /\ out_file = NoOutput
    /\ run_cpu = 0
    /\ cnt_ac = 0
    /\ findings = <<>>
    /\ log_stream = <<>>
    /\ abort_reason = "none"
    /\ compiled = <<>>
    /\ events = <<>>
    /\ outcomes = <<>>
    /\ returned = <<>>
    /\ cpu_used = <<>>
    /\ rewritten = {}

NoWalk ==
    /\ fs = {}
    /\ regex = <<>>
    /\ wdir = ""
    /\ todo = {}
    /\ tests = <<>>
    /\ warnings = <<>>

\* The state after Problem(dir): the subtasks are numbered from 0 (the first
\* one is the sample data) or from 1; g++ has run for the input validator and,
\* when one is configured, for the checker.  MaxRuns bounds the size of the
\* package.
Init ==
    /\ NoWalk
    /\ \E n \in 1..MaxSubtasks : \E cnt \in [1..n -> 0..MaxTests] : \E first \in {0, 1} :
         subtasks = [i \in 1..n |->
                        [subtask_id |-> first + i - 1, score |-> DeclaredScore(i),
                         ntests |-> cnt[i]]]
    /\ \E n \in 1..MaxSolutions :
         /\ n * TotalTests(subtasks) <= MaxRuns
         /\ solutions = [i \in 1..n |-> [name |-> i]]
    /\ problem_score \in {SumScores(subtasks), SumScores(subtasks) + 1}
    /\ verifier_exec_path \in {"None", "checker"}
    /\ checker_present \in IF verifier_exec_path = "None" THEN {TRUE} ELSE BOOLEAN
    /\ all_submissions \in {Configured(solutions), Configured(solutions) \cup {0}}
    /\ missing_input \in SUBSET TestSet(subtasks)
    /\ invalid_input \in SUBSET ValidatedTests(subtasks)
    /\ PackageSize(subtasks, solutions, problem_score, all_submissions, invalid_input)
          <= MaxRuns
    /\ children_cpu = IF verifier_exec_path = "None" THEN ToolCpu ELSE ToolCpu + ToolCpu
    /\ JudgeIdle

(***************************************************************************)
(* verify_subtasks, which main() calls before verify_submissions.          *)
(***************************************************************************)
\* The function ran to its end.
VerifySubtasks ==
    /\ pc = "start"
    /\ \E present \in BOOLEAN :
         LET r == verify_subtasks(subtasks, problem_score, missing_input, present,
                                  invalid_input)
         IN  /\ r.raised = "none"
             /\ findings' = findings \o r.lines
             /\ children_cpu' = children_cpu + r.cpu
             /\ rewritten' = r.rewritten
    /\ pc' = "submissions"
    /\ UNCHANGED <<walk, config, cpu_used, si, exec_present, problem_verdict, k, subtask_verdict, t,
                   correct_tests, test_verdict, out_file, run_cpu, cnt_ac, log_stream,
                   abort_reason, compiled, events, outcomes, returned>>

\* open() of an input file that does not exist, or subprocess.run of a
\* validator that does not exist, raises; nothing catches it.  The child that
\* failed to execute the validator may have used CPU time.
VerifySubtasksRaises ==
    /\ pc = "start"
    /\ \E present \in BOOLEAN, d \in {0, ToolCpu} :
         LET r == verify_subtasks(subtasks, problem_score, missing_input, present,
                                  invalid_input)
         IN  /\ r.raised # "none"
             /\ r.raised = "input" => d = 0
             /\ findings' = findings \o r.lines
             /\ children_cpu' = children_cpu + r.cpu + d
             /\ rewritten' = r.rewritten
             /\ abort_reason' = r.raised
    /\ pc' = "aborted"
    /\ UNCHANGED <<walk, config, cpu_used, si, exec_present, problem_verdict, k, subtask_verdict, t,
                   correct_tests, test_verdict, out_file, run_cpu, cnt_ac, log_stream,
                   compiled, events, outcomes, returned>>

(***************************************************************************)
(* verify_submissions                                                      *)
(***************************************************************************)
\* The extra submissions are reported; log_name = ...; cnt_ac = 0;
\* open(log_name, 'w') succeeded.
Begin ==
    /\ pc = "submissions"
    /\ findings' = findings \o ExtraSubmissions(all_submissions, solutions)
    /\ pc' = "loop"
    /\ si' = 1
    /\ cnt_ac' = 0
    /\ log_stream' = <<>>
    /\ UNCHANGED <<walk, config, rewritten, cpu_used, exec_present, problem_verdict, k, subtask_verdict, t,
                   correct_tests, test_verdict, out_file, children_cpu, run_cpu,
                   abort_reason, compiled, events, outcomes, returned>>

\* open(log_name, 'w') raises FileNotFoundError when ./logs does not exist;
\* nothing catches it.
BeginRaises ==
    /\ pc = "submissions"
    /\ findings' = findings \o ExtraSubmissions(all_submissions, solutions)
    /\ cnt_ac' = 0
    /\ pc' = "aborted"
    /\ abort_reason' = "logs"
    /\ UNCHANGED <<walk, config, rewritten, cpu_used, si, exec_present, problem_verdict, k, subtask_verdict, t,
                   correct_tests, test_verdict, out_file, children_cpu, run_cpu, log_stream,
                   compiled, events, outcomes, returned>>

\* compile_cpp(code_path, exec_path): g++ runs as a child; a failed compilation
\* raises nothing (subprocess.run without check) and leaves no executable.
Compile ==
    /\ pc = "loop"
    /\ si <= Len(solutions)
    /\ exec_present' \in BOOLEAN
    /\ children_cpu' = children_cpu + ToolCpu
    /\ compiled' = Append(compiled, solutions[si].name)
    /\ pc' = "judge"
    /\ UNCHANGED <<walk, config, rewritten, cpu_used, run_cpu, si, problem_verdict, k, subtask_verdict, t, correct_tests,
                   test_verdict, out_file, cnt_ac, findings, log_stream, abort_reason,
                   events, outcomes, returned>>

(***************************************************************************)
(* judge_exec                                                              *)
(***************************************************************************)
\* problem_verdict = ProblemVerdict()
JudgeBegin ==
    /\ pc = "judge"
    /\ problem_verdict' = NewProblemVerdict(problem_verdict)
    /\ k' = 1
    /\ events' = <<>>
    /\ outcomes' = <<>>
    /\ cpu_used' = <<>>
    /\ pc' = "subtasks"
    /\ UNCHANGED <<walk, config, rewritten, si, exec_present, subtask_verdict, t, correct_tests,
                   test_verdict, out_file, children_cpu, run_cpu, cnt_ac, findings, log_stream,
                   abort_reason, compiled, returned>>

\* if len(subtask.tests) == 0: continue
SubtaskSkip ==
    /\ pc = "subtasks"
    /\ k <= Len(subtasks)
    /\ SkipSubtask(subtasks[k])
    /\ k' = k + 1
    /\ UNCHANGED <<walk, config, rewritten, cpu_used, pc, si, exec_present, problem_verdict, subtask_verdict, t,
                   correct_tests, test_verdict, out_file, children_cpu, run_cpu, cnt_ac,
                   findings, log_stream, abort_reason, compiled, events, outcomes,
                   returned>>

\* correct_tests = 0; subtask_verdict = SubtaskVerdict(subtask.subtask_id)
SubtaskBegin ==
    /\ pc = "subtasks"
    /\ k <= Len(subtasks)
    /\ ~SkipSubtask(subtasks[k])
    /\ correct_tests' = 0
    /\ subtask_verdict' = SubtaskVerdict(subtasks[k].subtask_id)
    /\ t' = 1
    /\ pc' = "tests"
    /\ UNCHANGED <<walk, config, rewritten, cpu_used, si, exec_present, problem_verdict, k, test_verdict,
                   out_file, children_cpu, run_cpu, cnt_ac, findings, log_stream, abort_reason,
                   compiled, events, outcomes, returned>>

\* test_verdict = run_code(exec_path, test.input_path, output_path, time_limit_secs)
\* The child's CPU time is added to the counter when the child is waited for,
\* also when it was killed at the time limit.  What the child printed is
\* written to ./tmp/out before the exit status is looked at.
RunCode ==
    /\ pc = "tests"
    /\ t <= subtasks[k].ntests
    /\ <<k, t>> \notin missing_input
    /\ exec_present
    /\ \E result \in RunResult, d \in CpuChoices :
       \E good \in IF result = "timeout" THEN {FALSE} ELSE BOOLEAN :
         /\ test_verdict' = run_code(result, children_cpu, children_cpu + d, <<k, t>>)
         /\ children_cpu' = children_cpu + d
         /\ run_cpu' = run_cpu + d
         /\ cpu_used' = Append(cpu_used, d)
         /\ out_file' = WrittenOutput(result, out_file, [test |-> <<k, t>>, good |-> good])
         /\ outcomes' = Append(outcomes, [result |-> result, checked |-> FALSE, status |-> 0])
    /\ events' = Append(events, <<"run", k, t>>)
    /\ pc' = IF test_verdict'.verdict = "UNKNOWN" THEN "verify" ELSE "record"
    /\ UNCHANGED <<walk, config, rewritten, si, exec_present, problem_verdict, k, subtask_verdict, t,
                   correct_tests, cnt_ac, findings, log_stream, abort_reason, compiled,
                   returned>>

\* open() raises FileNotFoundError when the input file does not exist, and
\* then subprocess.run when the executable does not; run_code catches only
\* CalledProcessError and TimeoutExpired.  The child that failed to execute
\* the submission may have used CPU time.
RunCodeRaises ==
    /\ pc = "tests"
    /\ t <= subtasks[k].ntests
    /\ <<k, t>> \in missing_input \/ ~exec_present
    /\ \E d \in CpuChoices :
         /\ <<k, t>> \in missing_input => d = 0
         /\ children_cpu' = children_cpu + d
         /\ run_cpu' = run_cpu + d
    /\ events' = Append(events, <<"run", k, t>>)
    /\ pc' = "aborted"
    /\ abort_reason' = IF <<k, t>> \in missing_input THEN "input" ELSE "exec"
    /\ UNCHANGED <<walk, config, rewritten, cpu_used, si, exec_present, problem_verdict, k, subtask_verdict, t,
                   correct_tests, test_verdict, out_file, cnt_ac,
                   findings, log_stream, compiled, outcomes, returned>>

\* if self.verify_output(test, output_path): ... AC else: ... WA
VerifyOutput ==
    /\ pc = "verify"
    /\ LET status   == CheckerStatus(out_file, <<k, t>>)
           verified == verify_output(checker_present, status)
       IN  /\ verified # "OSError"
           /\ test_verdict' = JudgedVerdict(test_verdict, verified)
           /\ correct_tests' = IF verified = "True" THEN correct_tests + 1 ELSE correct_tests
           /\ outcomes' = [outcomes EXCEPT ![Len(outcomes)] =
                                      [@ EXCEPT !.checked = TRUE, !.status = status]]
    /\ children_cpu' = children_cpu + ToolCpu
    /\ events' = Append(events, <<"verify", k, t>>)
    /\ pc' = "record"
    /\ UNCHANGED <<walk, config, rewritten, cpu_used, run_cpu, si, exec_present, problem_verdict, k, subtask_verdict, t,
                   out_file, cnt_ac, findings, log_stream, abort_reason, compiled,
                   returned>>

\* The OSError of verify_output is caught nowhere: the program ends.  The
\* child that failed to execute the checker may have used CPU time.
VerifyOutputRaises ==
    /\ pc = "verify"
    /\ verify_output(checker_present, CheckerStatus(out_file, <<k, t>>)) = "OSError"
    /\ \E d \in {0, ToolCpu} : children_cpu' = children_cpu + d
    /\ events' = Append(events, <<"verify", k, t>>)
    /\ pc' = "aborted"
    /\ abort_reason' = "checker"
    /\ UNCHANGED <<walk, config, rewritten, cpu_used, si, exec_present, problem_verdict, k, subtask_verdict, t,
                   correct_tests, test_verdict, out_file, run_cpu, cnt_ac,
                   findings, log_stream, compiled, outcomes, returned>>

\* subtask_verdict.add_test_verdict(test_verdict)
Record ==
    /\ pc = "record"
    /\ subtask_verdict' = add_test_verdict(subtask_verdict, test_verdict)
    /\ t' = NextTest(t, test_verdict)
    /\ events' = Append(events, <<"add", k, t>>)
    /\ pc' = "tests"
    /\ UNCHANGED <<walk, config, rewritten, cpu_used, si, exec_present, problem_verdict, k, correct_tests,
                   test_verdict, out_file, children_cpu, run_cpu, cnt_ac, findings, log_stream,
                   abort_reason, compiled, outcomes, returned>>

\* subtask_verdict.set_score(...); problem_verdict.add_subtask_verdict(subtask_verdict)
SubtaskEnd ==
    /\ pc = "tests"
    /\ t > subtasks[k].ntests
    /\ problem_verdict' =
          CloseSubtask(problem_verdict, subtask_verdict,
                       SubtaskScore(correct_tests, subtasks[k].ntests, subtasks[k].score))
    /\ subtask_verdict' =
          set_score(subtask_verdict,
                    SubtaskScore(correct_tests, subtasks[k].ntests, subtasks[k].score))
    /\ k' = k + 1
    /\ pc' = "subtasks"
    /\ UNCHANGED <<walk, config, rewritten, cpu_used, si, exec_present, t, correct_tests,
                   test_verdict, out_file, children_cpu, run_cpu, cnt_ac, findings, log_stream,
                   abort_reason, compiled, events, outcomes, returned>>

\* return problem_verdict
JudgeReturn ==
    /\ pc = "subtasks"
    /\ k > Len(subtasks)
    /\ returned' = Append(returned, [name |-> solutions[si].name,
                                     outcomes |-> outcomes,
                                     verdict |-> problem_verdict])
    /\ pc' = "check"
    /\ UNCHANGED <<walk, config, rewritten, cpu_used, si, exec_present, problem_verdict, k, subtask_verdict, t,
                   correct_tests, test_verdict, out_file, children_cpu, run_cpu, cnt_ac,
                   findings, log_stream, abort_reason, compiled, events, outcomes>>

(***************************************************************************)
(* verify_submissions, after judge_exec returned.  submission['min_score'] *)
(* and submission['max_score'] are read from the configuration here, once  *)
(* per submission: the declared range is chosen where it is read.          *)
(***************************************************************************)
LogEntry(name, pv) ==
    [name |-> name,
     subtasks |-> [j \in 1..Len(pv.verdicts) |->
        [subtask_id |-> pv.verdicts[j].subtask_id,
         lines |-> [m \in 1..Len(pv.verdicts[j].test_verdicts) |->
            [text |-> TestVerdictStr(pv.verdicts[j].test_verdicts[m]),
             input_path |-> pv.verdicts[j].test_verdicts[m].input_path]]]]]

CheckScore ==
    /\ pc = "check"
    /\ \E range \in Ranges :
       LET submission == solutions[si]
           score      == problem_verdict.total_score
           min_score  == range[1]
           max_score  == range[2]
           finding    == RangeFinding(score, min_score, max_score)
       IN  /\ cnt_ac' = IF min_score > Fixed(problem_score) - EPS
                        THEN cnt_ac + 1 ELSE cnt_ac
           /\ findings' = Append(findings, [name |-> submission.name,
                                            success |-> finding = "in_range",
                                            finding |-> finding,
                                            score |-> score,
                                            min_score |-> min_score,
                                            max_score |-> max_score])
           /\ log_stream' = Append(log_stream, LogEntry(submission.name, problem_verdict))
           /\ si' = NextSubmission(si, finding)
    /\ pc' = "loop"
    /\ UNCHANGED <<walk, config, rewritten, cpu_used, exec_present, problem_verdict, k, subtask_verdict, t,
                   correct_tests, test_verdict, out_file, children_cpu, run_cpu, abort_reason,
                   compiled, events, outcomes, returned>>

\* After the loop the log is closed; if cnt_ac <= 1: verification_failed(...);
\* verification_success("Printed judge log to ...").
Finish ==
    /\ pc = "loop"
    /\ si > Len(solutions)
    /\ findings' = findings
                     \o (IF cnt_ac <= 1 THEN <<Line("cnt_ac", FALSE, "cnt_ac", cnt_ac)>>
                         ELSE <<>>)
                     \o <<Line("log", TRUE, "printed_log", 0)>>
    /\ pc' = "done"
    /\ UNCHANGED <<walk, config, rewritten, cpu_used, si, exec_present, problem_verdict, k, subtask_verdict, t,
                   correct_tests, test_verdict, out_file, children_cpu, run_cpu, cnt_ac,
                   log_stream, abort_reason, compiled, events, outcomes, returned>>

Next ==
    \/ VerifySubtasks
    \/ VerifySubtasksRaises
    \/ Begin
    \/ BeginRaises
    \/ Compile
    \/ JudgeBegin
    \/ SubtaskSkip
    \/ SubtaskBegin
    \/ RunCode
    \/ RunCodeRaises
    \/ VerifyOutput
    \/ VerifyOutputRaises
    \/ Record
    \/ SubtaskEnd
    \/ JudgeReturn
    \/ CheckScore
    \/ Finish

Spec == Init /\ [][Next]_vars

(***************************************************************************)
(* Subtask.__init__ and walk_folder: the discovery of the tests of one     *)
(* subtask.  iterdir yields the children of a directory in no particular   *)
(* order; a subdirectory is walked to its end before the walk of its       *)
(* parent goes on.                                                         *)
(***************************************************************************)
Str(a, b, c) == <<a>> \o Dot \o <<b>> \o Dot \o c

FileNames == { <<"a">> \o Dot \o DEFAULT_INPUT_SUFFIX,
               <<"a">> \o Dot \o DEFAULT_OUTPUT_SUFFIX,
               Str("a", "b", DEFAULT_INPUT_SUFFIX),
               Str("a", "b", DEFAULT_OUTPUT_SUFFIX),
               <<"b">> \o Dot \o DEFAULT_INPUT_SUFFIX }

Dirs == {"", "d"}

Regexes == { <<"a">>, <<".">> }

WalkSubtaskId == 1

InitWalk ==
    /\ \E files \in SUBSET (Dirs \X FileNames) :
         /\ Cardinality(files) <= MaxFiles
         /\ fs = files
         /\ todo = files
    /\ regex \in Regexes
    /\ wdir = ""
    /\ tests = <<>>
    /\ warnings = <<>>
    /\ subtasks = <<>>
    /\ solutions = <<>>
    /\ problem_score = 0
    /\ verifier_exec_path = "None"
    /\ checker_present = TRUE
    /\ all_submissions = {}
    /\ missing_input = {}
    /\ invalid_input = {}
    /\ children_cpu = 0
    /\ JudgeIdle

judge == <<config, pc, si, exec_present, problem_verdict, k, subtask_verdict, t,
           correct_tests, test_verdict, out_file, children_cpu, run_cpu, cnt_ac, findings,
           log_stream, abort_reason, compiled, events, outcomes, returned, cpu_used,
           rewritten>>

\* The else branch of walk_folder, for one file.
WalkFile ==
    /\ \E path \in todo :
         /\ path[1] = wdir
         /\ todo' = todo \ {path}
         /\ LET output_path == <<path[1], WithSuffix(path[2], Dot \o DEFAULT_OUTPUT_SUFFIX)>>
            IN  IF IsInput(regex, path[2], DEFAULT_INPUT_SUFFIX)
                THEN IF output_path \in fs
                     THEN /\ tests' = Append(tests, WalkTest(path, DEFAULT_INPUT_SUFFIX,
                                                             DEFAULT_OUTPUT_SUFFIX,
                                                             WalkSubtaskId))
                          /\ UNCHANGED warnings
                     ELSE /\ warnings' = Append(warnings, TestName(path[2]))
                          /\ UNCHANGED tests
                ELSE UNCHANGED <<tests, warnings>>
    /\ UNCHANGED <<fs, regex, wdir, judge>>

\* for child in path.iterdir(): self.walk_folder(child), for a directory.
WalkEnter ==
    /\ wdir = ""
    /\ \E path \in todo :
         /\ path[1] # ""
         /\ wdir' = path[1]
    /\ UNCHANGED <<fs, regex, todo, tests, warnings, judge>>

\* The iteration over a subdirectory ends.
WalkLeave ==
    /\ wdir # ""
    /\ \A path \in todo : path[1] # wdir
    /\ wdir' = ""
    /\ UNCHANGED <<fs, regex, todo, tests, warnings, judge>>

NextWalk ==
    \/ WalkFile
    \/ WalkEnter
    \/ WalkLeave

SpecWalk == InitWalk /\ [][NextWalk]_vars

\* The walk of the test directory has ended.
WalkDone == todo = {} /\ wdir = ""

(***************************************************************************)
(* Properties.                                                             *)
(***************************************************************************)
RECURSIVE Flatten(_)
\* The TestVerdicts of a sequence of SubtaskVerdicts, in order.
Flatten(svs) ==
    IF svs = <<>> THEN <<>> ELSE svs[1].test_verdicts \o Flatten(Tail(svs))

\* judge_exec is between its first and its last statement.
Judging == pc \in {"subtasks", "tests", "verify", "record"}

\* The TestVerdicts the current call of judge_exec has recorded so far.
Recorded ==
    Flatten(problem_verdict.verdicts)
      \o (IF pc \in {"tests", "verify", "record"} THEN subtask_verdict.test_verdicts ELSE <<>>)

\* The verdict the specification gives a run that ended as `o` says.
ExpectedVerdict(o) ==
    CASE o.result = "timeout" -> "TL"
      [] o.result = "nonzero" -> "RE"
      [] o.result = "zero"    -> IF o.status = 0 THEN "AC" ELSE "WA"

MapsOutcomes(tvs, outs) ==
    /\ Len(tvs) <= Len(outs)
    /\ \A i \in 1..Len(tvs) :
         /\ tvs[i].verdict = ExpectedVerdict(outs[i])
         /\ tvs[i].verdict # "UNKNOWN"
         /\ outs[i].checked <=> (outs[i].result = "zero")

VerdictSet(tvs) == { tvs[i].verdict : i \in 1..Len(tvs) }

\* C1: every recorded TestVerdict is terminal and is the one its run outcome
\* determines (timeout: TL, non-zero exit: RE, zero exit: AC or WA as the
\* verifier says); the verifier is consulted for zero exits only, and no
\* returned ProblemVerdict holds UNKNOWN.
C1_VerdictFromOutcome ==
    /\ Judging => MapsOutcomes(Recorded, outcomes)
    /\ \A i \in 1..Len(returned) :
         LET tvs == Flatten(returned[i].verdict.verdicts)
         IN  /\ MapsOutcomes(tvs, returned[i].outcomes)
             /\ Len(tvs) = Len(returned[i].outcomes)

\* A returned ProblemVerdict with a test that exited non-zero and a test
\* that exited zero and was verified.
C1_Witness ==
    \E i \in 1..Len(returned) :
       {"RE", "AC"} \subseteq VerdictSet(Flatten(returned[i].verdict.verdicts))

RECURSIVE CountAC(_)
CountAC(tvs) ==
    IF tvs = <<>> THEN 0
    ELSE (IF tvs[1].verdict = "AC" THEN 1 ELSE 0) + CountAC(Tail(tvs))

\* The subtask a SubtaskVerdict belongs to (the ids of a package are distinct).
SubtaskOf(sv) == CHOOSE s \in { subtasks[i] : i \in 1..Len(subtasks) } :
                     s.subtask_id = sv.subtask_id

\* Partial credit: score / subtask.score = accepted / total, with
\* 0 <= accepted <= total and 0 <= score <= subtask.score.
PartialCredit(sv) ==
    LET sub      == SubtaskOf(sv)
        accepted == CountAC(sv.test_verdicts)
    IN  /\ Len(sv.test_verdicts) = sub.ntests
        /\ 0 <= accepted /\ accepted <= sub.ntests
        /\ sv.score * sub.ntests = accepted * Fixed(sub.score)
        /\ 0 <= sv.score /\ sv.score <= Fixed(sub.score)

\* C2: correct_tests is the number of Accepted TestVerdicts of the subtask,
\* 0 <= correct_tests <= total_tests, and the subtask score is
\* (correct_tests / total_tests) * subtask.score, within [0, subtask.score];
\* 3 of 4 tests of a 20 point subtask give 15.
C2_SubtaskScore ==
    /\ pc \in {"tests", "record", "verify"} =>
         /\ correct_tests = CountAC(subtask_verdict.test_verdicts)
                              + (IF pc = "record" /\ test_verdict.verdict = "AC" THEN 1 ELSE 0)
         /\ 0 <= correct_tests /\ correct_tests <= subtasks[k].ntests
    /\ \A j \in 1..Len(problem_verdict.verdicts) : PartialCredit(problem_verdict.verdicts[j])
    /\ SubtaskScore(3, 4, 20) = Fixed(15)

\* A subtask of two tests, one accepted and one not, has half its points.
C2_Witness ==
    \E j \in 1..Len(problem_verdict.verdicts) :
       LET sv == problem_verdict.verdicts[j]
       IN  /\ Len(sv.test_verdicts) = 2
           /\ CountAC(sv.test_verdicts) = 1
           /\ 2 * sv.score = Fixed(SubtaskOf(sv).score)
           /\ sv.score > 0

RECURSIVE SumSubtaskScores(_)
SumSubtaskScores(svs) ==
    IF svs = <<>> THEN 0 ELSE svs[Len(svs)].score + SumSubtaskScores(SubSeq(svs, 1, Len(svs) - 1))

RECURSIVE SumEarned(_)
\* What the subtasks of svs earned, from their accepted tests.
SumEarned(svs) ==
    IF svs = <<>> THEN 0
    ELSE (CountAC(svs[1].test_verdicts) * Fixed(SubtaskOf(svs[1]).score))
            \div SubtaskOf(svs[1]).ntests + SumEarned(Tail(svs))

\* C3: total_score is the sum of the scores of the SubtaskVerdicts of the
\* ProblemVerdict, each counted with its final score (what its accepted tests
\* earned), never with the initial 0.
C3_TotalIsSum ==
    /\ problem_verdict.total_score = SumSubtaskScores(problem_verdict.verdicts)
    /\ problem_verdict.total_score = SumEarned(problem_verdict.verdicts)
    /\ \A i \in 1..Len(returned) :
         returned[i].verdict.total_score = SumSubtaskScores(returned[i].verdict.verdicts)

\* A returned ProblemVerdict of two subtasks that both earned points.
C3_Witness ==
    \E i \in 1..Len(returned) :
       LET pv == returned[i].verdict
       IN  /\ Len(pv.verdicts) = 2
           /\ pv.verdicts[1].score > 0
           /\ pv.verdicts[2].score > 0
           /\ pv.total_score = pv.verdicts[1].score + pv.verdicts[2].score

\* Every TestVerdict of this session: recorded, returned, or just produced.
AllRecorded ==
    Recorded \o Flatten(Flatten([i \in 1..Len(returned) |->
                                    [test_verdicts |-> returned[i].verdict.verdicts]]))

\* C4: with a checker configured that cannot be invoked, verify_output does
\* not return false: no test gets WrongAnswer (or Accepted), and the first
\* verification ends the run with the error; a WrongAnswer comes only from a
\* checker that ran and exited with a non-zero status.
C4_CheckerFailureAborts ==
    /\ (verifier_exec_path = "checker" /\ ~checker_present) =>
          /\ LET all == AllRecorded
             IN  \A i \in 1..Len(all) : all[i].verdict \notin {"WA", "AC"}
          /\ test_verdict.verdict \notin {"WA", "AC"}
          /\ (\E i \in 1..Len(events) : events[i][1] = "verify") =>
                (pc = "aborted" /\ abort_reason = "checker")
          /\ pc = "record" => test_verdict.verdict \in {"TL", "RE"}
    /\ Judging =>
          LET rec == Recorded
          IN  \A i \in 1..Len(rec) :
                 rec[i].verdict = "WA" =>
                    (checker_present /\ outcomes[i].checked /\ outcomes[i].status # 0)

\* The run ended at a verification because the configured checker is missing.
C4_Witness ==
    /\ verifier_exec_path = "checker"
    /\ ~checker_present
    /\ pc = "aborted"
    /\ abort_reason = "checker"
    /\ events[Len(events)][1] = "verify"

RECURSIVE TestsOf(_, _)
\* The tests of the subtasks from number i on, <<subtask, test>>, in order.
TestsOf(subs, i) ==
    IF i > Len(subs) THEN <<>>
    ELSE [m \in 1..subs[i].ntests |-> <<i, m>>] \o TestsOf(subs, i + 1)

AllTests == TestsOf(subtasks, 1)

RunsOf(evs) == SelectSeq(evs, LAMBDA e : e[1] = "run")

IsPrefix(a, b) == Len(a) <= Len(b) /\ a = SubSeq(b, 1, Len(a))

\* Between a run and the next run lie the verification (if any) and the
\* record of that same test.
Sequential(evs) ==
    \A i \in 1..Len(evs) :
       /\ (evs[i][1] = "run" /\ i < Len(evs)) =>
             /\ evs[i + 1][1] \in {"verify", "add"}
             /\ <<evs[i + 1][2], evs[i + 1][3]>> = <<evs[i][2], evs[i][3]>>
       /\ (evs[i][1] = "verify" /\ i < Len(evs)) =>
             /\ evs[i + 1][1] = "add"
             /\ <<evs[i + 1][2], evs[i + 1][3]>> = <<evs[i][2], evs[i][3]>>
       /\ (evs[i][1] = "add" /\ i < Len(evs)) => evs[i + 1][1] = "run"

\* One TestVerdict per test of the subtask, in the order of subtask.tests.
OnePerTest(sv) ==
    /\ Len(sv.test_verdicts) = SubtaskOf(sv).ntests
    /\ \A m \in 1..Len(sv.test_verdicts) :
          /\ sv.test_verdicts[m].input_path[2] = m
          /\ subtasks[sv.test_verdicts[m].input_path[1]].subtask_id = sv.subtask_id

\* C5: in one call of judge_exec every test of every non-empty subtask is run
\* exactly once, in order and without retry; a run, its verification and its
\* record end before the next run starts; every SubtaskVerdict holds one
\* TestVerdict per test, in the order of subtask.tests.
C5_EachTestOnce ==
    /\ (Judging \/ pc = "check") =>
          /\ LET runs == RunsOf(events)
             IN  IsPrefix([i \in 1..Len(runs) |-> <<runs[i][2], runs[i][3]>>], AllTests)
          /\ Sequential(events)
    /\ pc = "check" => Len(RunsOf(events)) = Len(AllTests)
    /\ \A j \in 1..Len(problem_verdict.verdicts) : OnePerTest(problem_verdict.verdicts[j])

\* judge_exec returned after a subtask of two tests whose first test timed
\* out and whose second test got a wrong answer.
C5_Witness ==
    /\ pc = "check"
    /\ \E j \in 1..Len(problem_verdict.verdicts) :
          LET tvs == problem_verdict.verdicts[j].test_verdicts
          IN  /\ Len(tvs) = 2
              /\ tvs[1].verdict = "TL"
              /\ tvs[2].verdict = "WA"

SubtaskIds(seq) == [i \in 1..Len(seq) |-> seq[i].subtask_id]

\* C6 as claimed: the returned ProblemVerdict has one SubtaskVerdict for each
\* subtask of the problem, in subtask order.
C6_OnePerSubtask ==
    \A i \in 1..Len(returned) :
       SubtaskIds(returned[i].verdict.verdicts) = SubtaskIds(subtasks)

\* C6, amended: the returned ProblemVerdict has one SubtaskVerdict for each
\* subtask that has at least one test, in subtask order; a subtask without
\* tests has none.
C6_OnePerNonEmptySubtask ==
    LET nonempty == SubtaskIds(SelectSeq(subtasks, LAMBDA s : s.ntests > 0))
    IN  \A i \in 1..Len(returned) : SubtaskIds(returned[i].verdict.verdicts) = nonempty

\* A returned ProblemVerdict for a package with an empty subtask followed by
\* a subtask of one test.
C6_Witness ==
    /\ Len(subtasks) = 2
    /\ subtasks[1].ntests = 0
    /\ subtasks[2].ntests = 1
    /\ \E i \in 1..Len(returned) : SubtaskIds(returned[i].verdict.verdicts) = <<2>>

\* The timeout sentinel and the measured times are told apart.
SentinelOnlyForTimeout(tv) ==
    /\ (tv.verdict = "TL") <=> (tv.exec_time = -1)
    /\ tv.verdict \in {"AC", "WA", "RE", "UNKNOWN"} => tv.exec_time >= 0

\* C7: a TestVerdict is TimeLimitExceeded exactly when its exec_time is the
\* sentinel -1; Accepted, WrongAnswer and RuntimeError carry a measured time
\* >= 0, and the log prints no time for a timed-out test.
C7_TimeoutSentinel ==
    /\ LET all == AllRecorded
       IN  \A i \in 1..Len(all) : SentinelOnlyForTimeout(all[i])
    /\ pc \in {"verify", "record"} => SentinelOnlyForTimeout(test_verdict)
    /\ \A i \in 1..Len(log_stream) : \A j \in 1..Len(log_stream[i].subtasks) :
          \A m \in 1..Len(log_stream[i].subtasks[j].lines) :
             LET text == log_stream[i].subtasks[j].lines[m].text
             IN  text[1] # "TL" => text[2] >= 0

\* A subtask with a timed-out test and a test measured at 0 ticks.
C7_Witness ==
    \E i \in 1..Len(returned) : \E j \in 1..Len(returned[i].verdict.verdicts) :
       LET tvs == returned[i].verdict.verdicts[j].test_verdicts
       IN  \E a, b \in 1..Len(tvs) :
              /\ tvs[a].verdict = "TL" /\ tvs[a].exec_time = -1
              /\ tvs[b].verdict = "AC" /\ tvs[b].exec_time = 0

Names(seq) == [i \in 1..Len(seq) |-> seq[i].name]

\* The lines verify_submissions printed for the submissions.
SubmissionFindings ==
    SelectSeq(findings, LAMBDA f : f.finding \in {"below", "above", "in_range"})

\* C8: a submission is reported failed exactly when its total score is below
\* min_score - EPS or above max_score + EPS; a finding out of range does not
\* stop the loop: the submissions are compiled, judged and logged once each,
\* in configuration order, and when verify_submissions ends all of them are.
C8_FindingsDoNotHalt ==
    /\ LET found == SubmissionFindings
       IN  \A i \in 1..Len(found) :
              LET f == found[i]
              IN  /\ f.success <=> (f.min_score <= f.score + EPS /\ f.score <= f.max_score + EPS)
                  /\ f.score = returned[i].verdict.total_score
    /\ IsPrefix(compiled, Names(solutions))
    /\ IsPrefix(Names(returned), compiled)
    /\ IsPrefix(Names(log_stream), Names(returned))
    /\ Names(SubmissionFindings) = Names(log_stream)
    /\ Len(compiled) <= Len(log_stream) + 1
    /\ pc = "loop" => si = Len(log_stream) + 1
    /\ pc = "done" => Names(log_stream) = Names(solutions)

\* verify_submissions ended after two submissions, the first of which was
\* found out of range.
C8_Witness ==
    /\ pc = "done"
    /\ Len(solutions) = 2
    /\ Len(log_stream) = 2
    /\ ~SubmissionFindings[1].success
    /\ SubmissionFindings[2].success

\* A ProblemVerdict without the measured times.
Judgement(pv) ==
    [total_score |-> pv.total_score,
     subtasks |-> [j \in 1..Len(pv.verdicts) |->
        [subtask_id |-> pv.verdicts[j].subtask_id,
         score |-> pv.verdicts[j].score,
         verdicts |-> [m \in 1..Len(pv.verdicts[j].test_verdicts) |->
                          <<pv.verdicts[j].test_verdicts[m].input_path,
                            pv.verdicts[j].test_verdicts[m].verdict>>]]]]

\* C10: two calls of judge_exec in which every run and every check ended the
\* same way return the same per-test verdicts, subtask scores and total
\* score, whatever the earlier call left behind.
C10_JudgingIsStateless ==
    \A i, j \in 1..Len(returned) :
       returned[i].outcomes = returned[j].outcomes =>
          Judgement(returned[i].verdict) = Judgement(returned[j].verdict)

\* Two calls with the same outcomes, earning points, after the first of
\* which ./tmp/out and the CPU counter were left changed.
C10_Witness ==
    /\ Len(returned) >= 2
    /\ returned[1].outcomes = returned[2].outcomes
    /\ Len(returned[1].outcomes) >= 1
    /\ returned[2].verdict.total_score > 0
    /\ returned[1].verdict.verdicts[1].test_verdicts[1].exec_time = 1

\* The files walk_folder takes for inputs of the subtask.
QualifyingInputs ==
    { path \in fs :
         /\ RegexMatch(regex, path[2])
         /\ Suffix(path[2]) = Dot \o DEFAULT_INPUT_SUFFIX
         /\ <<path[1], WithSuffix(path[2], Dot \o DEFAULT_OUTPUT_SUFFIX)>> \in fs }

\* C9: after the walk a Test is in subtask.tests exactly for the files whose
\* name matches the regex, whose extension is the input suffix and whose
\* same-named output file exists; input_path is that file, output_path that
\* existing output file, the name being the file name without the input
\* suffix; an input without output is reported and not added.
C9_TestsArePairs ==
    /\ \A i \in 1..Len(tests) :
          /\ tests[i].input_path \in QualifyingInputs
          /\ tests[i].output_path \in fs
          /\ tests[i].output_path =
                <<tests[i].input_path[1],
                  WithSuffix(tests[i].input_path[2], Dot \o DEFAULT_OUTPUT_SUFFIX)>>
    /\ WalkDone =>
          /\ { tests[i].input_path : i \in 1..Len(tests) } = QualifyingInputs
          /\ Len(tests) = Cardinality(QualifyingInputs)

\* What does hold of the walk: one Test per qualifying file, and one warning
\* per matched input without output.
WalkCounts ==
    WalkDone =>
       /\ Len(tests) = Cardinality(QualifyingInputs)
       /\ Len(warnings) =
             Cardinality({ path \in fs : IsInput(regex, path[2], DEFAULT_INPUT_SUFFIX) }
                            \ QualifyingInputs)

\* C11: the exec_time of a run that did not time out is the CPU time of that
\* run's own child: the counter after the run minus the counter just before
\* it, with nothing of earlier runs (timed out or not), of the checker or
\* diff between the runs, or of the compilation.
C11_ExecTimeIsOwnCpu ==
    /\ LET rec == Recorded
       IN  /\ Len(rec) <= Len(cpu_used)
           /\ \A i \in 1..Len(rec) :
                 rec[i].verdict # "TL" => rec[i].exec_time = cpu_used[i]
    /\ pc \in {"verify", "record"} =>
          (test_verdict.verdict # "TL" =>
              test_verdict.exec_time = cpu_used[Len(cpu_used)])

\* After the compilation and a timed-out run that used CPU time, a second
\* run that used none is recorded with exec_time 0.
C11_Witness ==
    /\ Len(Recorded) = 2
    /\ outcomes[1].result = "timeout"
    /\ cpu_used[1] = 1
    /\ Recorded[2].verdict \in {"AC", "WA", "RE"}
    /\ cpu_used[2] = 0
    /\ Recorded[2].exec_time = 0
    /\ children_cpu >= ToolCpu + 1

====
